---- MODULE Spec2Model ----
(***************************************************************************)
(* Snippet resolution of an abbreviation tree (src/index.js).              *)
(*                                                                         *)
(* The tree is an arena: `nodes` is a sequence of node records and a node  *)
(* is named by its index.  Each record carries the fields the resolver     *)
(* reads and writes (name, attributes, value, selfClosing, repeat) and the *)
(* two link fields the splice rewrites (parent, children).  The recursion  *)
(* of resolve / tree.walk is made explicit as a call stack `frames`.       *)
(*                                                                         *)
(* src/index.js holds two versions of the resolver: the tree-walking one   *)
(* (lines 20-160) and the parse-injected one (lines 179-311).  `variant`   *)
(* says which one runs.                                                    *)
(***************************************************************************)
EXTENDS Integers, Sequences, FiniteSets, TLC

VARIABLES
    variant,    \* "tree" (index.js 20-160) or "parseInjected" (index.js 179-311)
    live,       \* whether node.attributes hands out the node's own array (see MergeAttributes)
    nodes,      \* the arena: Seq of node records
    frames,     \* the call stack, innermost call last
    stack,      \* the cycle-guard Set of the running resolveNode call (snippet ids)
    status,     \* "running", "done" (the walk returned) or "failed" (an error reached the caller)
    err,        \* the error that reached the caller of the walk
    pre,        \* history: the arena when the running top-level resolve was called
    last,       \* history: the last step of resolve, with the arena before it
    steps       \* history: the steps taken so far

vars == <<variant, live, nodes, frames, stack, status, err, pre, last, steps>>

(***************************************************************************)
(* Bounds of the model.                                                    *)
(***************************************************************************)
\* children given to the first top-level node of the input abbreviation
MaxKids == 2
\* siblings that follow the first top-level node of the input abbreviation
MaxSibs == 1
\* cap of the arena: no template is parsed beyond it
MaxNodes == 60
\* cap of the steps of one run: no step is taken beyond it
MaxSteps == 200

(***************************************************************************)
(* Values.                                                                 *)
(***************************************************************************)
\* JavaScript null / undefined for a name or a text value
Null == "<null>"
\* node.repeat === null
NoRepeat == [count |-> 0, value |-> 0]
Repeat(c, v) == [count |-> c, value |-> v]

\* An attribute: its value is the sequence of its whitespace-separated tokens
\* (<<>> is the empty value), `implied` is options.implied.
Attr(n, v, i) == [name |-> n, value |-> v, implied |-> i]

\* A node as the parser describes it, `par` the index of its parent in the
\* description (0: a child of the root).
D(par, name, attrs) ==
    [par |-> par, name |-> name, attrs |-> attrs, value |-> Null,
     selfClosing |-> FALSE, repeat |-> NoRepeat]

RECURSIVE SortedSeq(_)
SortedSeq(S) ==
    IF S = {} THEN <<>>
    ELSE LET m == CHOOSE x \in S : \A y \in S : x <= y
         IN  <<m>> \o SortedSeq(S \ {m})

IndexOf(seq, x) ==
    IF \E i \in 1..Len(seq) : seq[i] = x
    THEN CHOOSE i \in 1..Len(seq) : seq[i] = x /\ \A j \in 1..(i-1) : seq[j] # x
    ELSE 0

Has(seq, x) == \E i \in 1..Len(seq) : seq[i] = x

SeqRemoveAt(seq, i) == SubSeq(seq, 1, i-1) \o SubSeq(seq, i+1, Len(seq))

\* Array.prototype.splice(pos, 0, x) with a 0-based pos
SeqInsertAt(seq, pos, x) == SubSeq(seq, 1, pos) \o <<x>> \o SubSeq(seq, pos+1, Len(seq))

(***************************************************************************)
(* The parser's result for a template: a detached tree appended to the     *)
(* arena, its root (name null, no parent) first.                           *)
(***************************************************************************)
KidsOf(tpl, i, base) ==
    LET S == {j \in 1..Len(tpl) : tpl[j].par = i}
        o == SortedSeq(S)
    IN  [k \in 1..Len(o) |-> base + 1 + o[k]]

AllocLinked(nds, tpl, up) ==
    LET base == Len(nds)
        root == [name |-> Null, attrs |-> <<>>, value |-> Null, selfClosing |-> FALSE,
                 repeat |-> NoRepeat, parent |-> up, children |-> KidsOf(tpl, 0, base)]
        mk(i) == [name |-> tpl[i].name, attrs |-> tpl[i].attrs, value |-> tpl[i].value,
                  selfClosing |-> tpl[i].selfClosing, repeat |-> tpl[i].repeat,
                  parent |-> base + 1 + tpl[i].par, children |-> KidsOf(tpl, i, base)]
    IN  nds \o <<root>> \o [i \in 1..Len(tpl) |-> mk(i)]

\* a plausible slip: the parsed tree is hung under the node being resolved
AllocAttached(nds, tpl, n) ==
    LET a == AllocLinked(nds, tpl, n)
    IN  IF n = 0 THEN a
        ELSE [a EXCEPT ![n].children = Append(@, Len(nds) + 1)]

\* parse(snippet.value): a new detached tree; `n` is the node being resolved
Alloc(nds, tpl, n) == AllocLinked(nds, tpl, 0)

(***************************************************************************)
(* The registry: the snippets of the repository's tests, and the snippets  *)
(* the error paths need (a malformed template, functions that throw or     *)
(* re-enter the resolver, two snippets that name each other).              *)
(***************************************************************************)
Template(tpl) == [kind |-> "template", tpl |-> tpl, fn |-> "none"]
Malformed     == [kind |-> "malformed", tpl |-> <<>>, fn |-> "none"]
Function(f)   == [kind |-> "function", tpl |-> <<>>, fn |-> f]

Snippets ==
    [ a          |-> Template(<< D(0, "a", <<Attr("href", <<>>, FALSE)>>) >>),
      bq         |-> Template(<< D(0, "blockquote", <<>>) >>),
      meta       |-> Template(<< [D(0, "meta", <<>>) EXCEPT !.selfClosing = TRUE] >>),
      doc        |-> Template(<< D(0, "html", <<>>),
                                 D(1, "head", <<>>),
                                 D(2, "meta", <<Attr("charset", <<"UTF-8">>, FALSE)>>),
                                 [D(2, "title", <<>>) EXCEPT !.value = "Document"],
                                 D(1, "body", <<>>) >>),
      script     |-> Template(<< D(0, "script", <<Attr("src", <<>>, TRUE)>>) >>),
      scriptsrc  |-> Template(<< D(0, "script", <<Attr("src", <<>>, FALSE)>>) >>),
      foo        |-> Template(<< D(0, Null, <<Attr("class", <<"foo">>, FALSE),
                                              Attr("bar", <<"baz">>, FALSE)>>) >>),
      link       |-> Template(<< [D(0, "link", <<Attr("rel", <<"stylesheet">>, FALSE),
                                                 Attr("type", <<>>, TRUE),
                                                 Attr("href", <<>>, FALSE)>>)
                                    EXCEPT !.selfClosing = TRUE] >>),
      lis        |-> Template(<< [D(0, "li", <<>>) EXCEPT !.repeat = Repeat(2, 1)],
                                 [D(0, "li", <<>>) EXCEPT !.repeat = Repeat(2, 2)] >>),
      p          |-> Template(<< D(0, "q", <<>>) >>),
      q          |-> Template(<< D(0, "p", <<>>), D(1, "span", <<>>) >>),
      wrap       |-> Template(<< D(0, "div", <<>>), D(1, "bad", <<>>) >>),
      box        |-> Template(<< D(0, "div", <<>>), D(1, "fn", <<>>) >>),
      bad        |-> Malformed,
      fn         |-> Function("setValue"),
      boom       |-> Function("throw"),
      retry      |-> Function("retry") ]

\* registry.resolve(name): the snippet's identity, or "none" (undefined)
RegistryResolve(name) ==
    CASE name = "a"          -> "a"
      [] name = "bq"         -> "bq"
      [] name = "meta"       -> "meta"
      [] name = "doc"        -> "doc"
      [] name = "script"     -> "script"
      [] name = "script:src" -> "scriptsrc"
      [] name = "foo"        -> "foo"
      [] name = "link"       -> "link"
      [] name = "lis"        -> "lis"
      [] name = "p"          -> "p"
      [] name = "q"          -> "q"
      [] name = "wrap"       -> "wrap"
      [] name = "box"        -> "box"
      [] name = "bad"        -> "bad"
      [] name = "fn"         -> "fn"
      [] name = "boom"       -> "boom"
      [] name = "retry"      -> "retry"
      [] OTHER               -> "none"

(***************************************************************************)
(* The tree operations the resolver calls (Node.firstChild, .next,         *)
(* .remove(), .insertBefore()).                                            *)
(***************************************************************************)
FirstChild(nds, x) == IF nds[x].children = <<>> THEN 0 ELSE nds[x].children[1]

\* node.next: the sibling that follows x, 0 when there is none
NextSibling(nds, x) ==
    LET p == nds[x].parent
    IN  IF p = 0 THEN 0
        ELSE LET c == nds[p].children
                 i == IndexOf(c, x)
             IN  IF i = 0 \/ i = Len(c) THEN 0 ELSE c[i + 1]

\* node.remove(): detach x from its parent
Remove(nds, x) ==
    LET p == nds[x].parent
    IN  IF p = 0 THEN nds
        ELSE LET ix == IndexOf(nds[p].children, x)
             IN  IF ix = 0 THEN nds
                 ELSE [nds EXCEPT ![p].children = SeqRemoveAt(@, ix), ![x].parent = 0]

\* parent.insertAt(node, pos), pos 0-based: detach, then link
InsertAt(nds, p, x, pos) ==
    LET r == Remove(nds, x)
    IN  [r EXCEPT ![x].parent = p, ![p].children = SeqInsertAt(@, pos, x)]

\* parent.insertBefore(newNode, refNode): nothing when refNode is no child of parent
InsertBefore(nds, p, x, ref) ==
    LET ix == IndexOf(nds[p].children, ref)
    IN  IF ix = 0 THEN nds ELSE InsertAt(nds, p, x, ix - 1)

\* a plausible slip: the first child is followed instead of the last
RECURSIVE FindLeftmostNode(_, _)
FindLeftmostNode(nds, x) ==
    IF nds[x].children = <<>> THEN x
    ELSE FindLeftmostNode(nds, nds[x].children[1])

RECURSIVE FindLastDescendant(_, _)
FindLastDescendant(nds, x) ==
    IF nds[x].children = <<>> THEN x
    ELSE FindLastDescendant(nds, nds[x].children[Len(nds[x].children)])

\* findDeepestNode(node)
FindDeepestNode(nds, x) == FindLastDescendant(nds, x)

(***************************************************************************)
(* Attributes and class names.                                             *)
(***************************************************************************)
AttrIndex(attrs, name) ==
    IF \E i \in 1..Len(attrs) : attrs[i].name = name
    THEN CHOOSE i \in 1..Len(attrs) :
            attrs[i].name = name /\ \A j \in 1..(i-1) : attrs[j].name # name
    ELSE 0

\* node.setAttribute(attr): replace the attribute of that name in place, or push
SetAttribute(attrs, attr) ==
    LET i == AttrIndex(attrs, attr.name)
    IN  IF i = 0 THEN Append(attrs, attr) ELSE [attrs EXCEPT ![i] = attr]

\* the distinct tokens of a value, in order of first occurrence
RECURSIVE Unique(_)
Unique(toks) ==
    IF toks = <<>> THEN <<>>
    ELSE LET r == Unique(SubSeq(toks, 1, Len(toks) - 1))
             t == toks[Len(toks)]
         IN  IF Has(r, t) THEN r ELSE Append(r, t)

\* node.classList
ClassList(attrs) ==
    LET i == AttrIndex(attrs, "class")
    IN  IF i = 0 THEN <<>> ELSE Unique(attrs[i].value)

\* node.addClass(token)
AddClass(attrs, token) ==
    IF AttrIndex(attrs, "class") = 0
    THEN SetAttribute(attrs, Attr("class", <<token>>, FALSE))
    ELSE IF Has(ClassList(attrs), token) THEN attrs
         ELSE SetAttribute(attrs, Attr("class", Append(ClassList(attrs), token), FALSE))

\* mergeClassNames(from, to): the attributes of `to` afterwards
RECURSIVE AddClasses(_, _)
AddClasses(attrs, toks) ==
    IF toks = <<>> THEN attrs
    ELSE AddClasses(AddClass(attrs, toks[1]), Tail(toks))

MergeClassNames(fromAttrs, toAttrs) == AddClasses(toAttrs, ClassList(fromAttrs))

\* attrMap.set(name, attr) over a sequence: an insertion-ordered Map
RECURSIVE MapFrom(_, _)
MapFrom(m, attrs) ==
    IF attrs = <<>> THEN m
    ELSE MapFrom(SetAttribute(m, attrs[1]), Tail(attrs))

\* the loop over the attributes of `to`: an attribute `from` has takes the value
\* of `to` (and, in the tree-walking version, stops being implied); the others
\* are added after
RECURSIVE MapOverride(_, _, _)
MapOverride(m, attrs, v) ==
    IF attrs = <<>> THEN m
    ELSE LET attr == attrs[1]
             i    == AttrIndex(m, attr.name)
             m2   == IF i = 0 THEN Append(m, attr)
                     ELSE [m EXCEPT ![i].value = attr.value,
                                    ![i].implied = IF v = "tree" THEN FALSE ELSE @]
         IN  MapOverride(m2, Tail(attrs), v)

\* index.js 264-275 when `to.attributes` is the node's own array: the loop removes
\* from the array it walks, so it skips the attribute after each one it handles
RECURSIVE OverrideLive(_, _, _)
OverrideLive(m, attrs, i) ==
    IF i >= Len(attrs) THEN [map |-> m, rest |-> attrs]
    ELSE LET attr == attrs[i + 1]
             k    == AttrIndex(m, attr.name)
             m2   == IF k = 0 THEN Append(m, attr) ELSE [m EXCEPT ![k].value = attr.value]
         IN  OverrideLive(m2, SeqRemoveAt(attrs, i + 1), i + 1)

\* a plausible slip: the attributes of `to` are collected first
MergeAttributesToFirst(fromAttrs, toAttrs, v, lv) ==
    LET to1 == MergeClassNames(fromAttrs, toAttrs)
        only == SelectSeq(fromAttrs, LAMBDA a : AttrIndex(to1, a.name) = 0)
    IN  MapFrom(<<>>, [i \in 1..Len(to1) |->
                         [to1[i] EXCEPT !.implied =
                             IF v = "tree" /\ AttrIndex(fromAttrs, to1[i].name) # 0
                             THEN FALSE ELSE @]] \o only)

\* mergeAttributes(from, to): the attributes of `to` afterwards.  The attributes
\* of `from` go into the map first, those of `to` override or follow, and the
\* map's values are set on `to` in the map's order.  index.js 107 walks a copy
\* (slice) of the attributes of `to`, so every one of them is removed before the
\* map is set.  index.js 264 walks `to.attributes` itself: what the getter hands
\* out is the Node library's business, so both outcomes are modelled (`lv`).
MergeAttributes(fromAttrs, toAttrs, v, lv) ==
    LET to1 == MergeClassNames(fromAttrs, toAttrs)
        m0  == MapFrom(<<>>, fromAttrs)
    IN  IF v = "parseInjected" /\ lv
        THEN LET o == OverrideLive(m0, to1, 0) IN MapFrom(o.rest, o.map)
        ELSE MapFrom(<<>>, MapOverride(m0, to1, v))

\* a plausible slip: the repeat descriptor is copied without the `if`
MergeNodeRepeatAlways(from, to, v, lv) ==
    [to EXCEPT !.name = from.name,
               !.selfClosing = IF from.selfClosing THEN TRUE ELSE @,
               !.value = IF from.value # Null THEN from.value ELSE @,
               !.repeat = from.repeat,
               !.attrs = MergeAttributes(from.attrs, to.attrs, v, lv)]

\* merge(from, to): the record of `to` afterwards
MergeNode(from, to, v, lv) ==
    [to EXCEPT !.name = from.name,
               !.selfClosing = IF from.selfClosing THEN TRUE ELSE @,
               !.value = IF from.value # Null THEN from.value ELSE @,
               !.repeat = IF from.repeat # NoRepeat THEN from.repeat ELSE @,
               !.attrs = MergeAttributes(from.attrs, to.attrs, v, lv)]

Merge(nds, f, t, v, lv) == [nds EXCEPT ![t] = MergeNode(nds[f], nds[t], v, lv)]

(***************************************************************************)
(* The splice: index.js 48-57 (and 202-211).                               *)
(***************************************************************************)
\* while (tree.firstChild) node.parent.insertBefore(tree.firstChild, node)
RECURSIVE MoveTop(_, _, _)
MoveTop(nds, t, n) ==
    IF nds[t].children = <<>> THEN nds
    ELSE MoveTop(InsertBefore(nds, nds[n].parent, nds[t].children[1], n), t, n)

\* a plausible slip: the deepest node is left beside the node that replaced it
SpliceKeepTarget(nds, n, t, v, lv) ==
    LET ct == FindDeepestNode(nds, t)
        s1 == Merge(nds, ct, n, v, lv)
        s2 == MoveTop(s1, t, n)
    IN  InsertBefore(s2, s2[ct].parent, n, ct)

Splice(nds, n, t, v, lv) ==
    LET ct == FindDeepestNode(nds, t)
        s1 == Merge(nds, ct, n, v, lv)
        s2 == MoveTop(s1, t, n)
        s3 == InsertBefore(s2, s2[ct].parent, n, ct)
    IN  Remove(s3, ct)

(***************************************************************************)
(* The input abbreviations: one top-level node, up to MaxKids children of  *)
(* it and up to MaxSibs siblings after it.                                 *)
(***************************************************************************)
I(name, attrs, value, repeat) ==
    [D(0, name, attrs) EXCEPT !.value = value, !.repeat = repeat]

Class(toks) == Attr("class", toks, FALSE)

TopItems ==
    { I("a", <<Class(<<"test">>)>>, "text", NoRepeat),
      I("a", <<Class(<<"test">>)>>, "text", Repeat(2, 1)),
      I("a", <<Attr("title", <<"t">>, FALSE), Attr("href", <<"u">>, FALSE)>>, Null, NoRepeat),
      I("bq", <<Class(<<"a">>)>>, Null, NoRepeat),
      I("doc", <<>>, Null, NoRepeat),
      I("script", <<>>, Null, NoRepeat),
      I("script", <<Attr("src", <<>>, FALSE)>>, Null, NoRepeat),
      I("script:src", <<>>, Null, NoRepeat),
      I("foo", <<>>, Null, NoRepeat),
      I("foo", <<Class(<<"x">>)>>, Null, NoRepeat),
      I("link", <<Attr("href", <<"style2.css">>, FALSE)>>, Null, NoRepeat),
      I("fn", <<>>, Null, NoRepeat),
      I("fn", <<>>, Null, Repeat(2, 1)),
      I("lis", <<>>, Null, Repeat(3, 1)),
      I("p", <<>>, Null, NoRepeat),
      I("q", <<>>, Null, NoRepeat),
      I("wrap", <<>>, Null, NoRepeat),
      I("box", <<>>, Null, NoRepeat),
      I("bad", <<>>, Null, NoRepeat),
      I("boom", <<>>, Null, NoRepeat),
      I("retry", <<>>, Null, NoRepeat),
      I("div", <<>>, Null, NoRepeat) }

KidItems ==
    { I("bq", <<Class(<<"b">>)>>, Null, NoRepeat),
      I("span", <<Class(<<"a">>)>>, Null, NoRepeat),
      I("wrap", <<>>, Null, NoRepeat) }

SibItems ==
    { I("bq", <<Class(<<"c">>)>>, Null, NoRepeat),
      I("bad", <<>>, Null, NoRepeat) }

SeqsUpTo(S, n) == UNION { [1..k -> S] : k \in 0..n }

Inputs ==
    { <<top>> \o [i \in 1..Len(kids) |-> [kids[i] EXCEPT !.par = 1]] \o sibs :
        top \in TopItems, kids \in SeqsUpTo(KidItems, MaxKids),
        sibs \in SeqsUpTo(SibItems, MaxSibs) }

(***************************************************************************)
(* The call stack.                                                         *)
(***************************************************************************)
Frame(kind, pc) ==
    [kind |-> kind, pc |-> pc, node |-> 0, snip |-> "none", root |-> 0,
     cur |-> 0, nxt |-> 0, top |-> FALSE, todo |-> <<>>]

\* node.walk(fn): ctx = node.firstChild
WalkFrame(first, top) == [Frame("walk", "loop") EXCEPT !.cur = first, !.top = top]
\* resolve(node)
ResolveFrame(n) == [Frame("resolve", "enter") EXCEPT !.node = n]
\* a function snippet that calls resolve on each child of its node and
\* catches what the call throws
FnFrame(n, todo) == [Frame("fn", "loop") EXCEPT !.node = n, !.todo = todo]

Top == frames[Len(frames)]
Pop(fr) == SubSeq(fr, 1, Len(fr) - 1)
SetTop(fr, f) == [fr EXCEPT ![Len(fr)] = f]

\* a call is running, and the run is within its cap
Running == status = "running" /\ frames # <<>> /\ steps < MaxSteps
Tick == steps' = steps + 1

NoError == [origin |-> "none", names |-> "none", wrapped |-> FALSE]
\* what the parser throws: its own error, which knows nothing of the snippet
ParserError == [origin |-> "parser", names |-> "none", wrapped |-> FALSE]
FunctionError == [origin |-> "function", names |-> "none", wrapped |-> FALSE]

Last(op, n, s) ==
    [op |-> op, node |-> n, snip |-> s, root |-> 0, target |-> 0,
     before |-> nodes, stackBefore |-> stack]

(***************************************************************************)
(* resolve: index.js 27-58 (and 181-212).                                  *)
(***************************************************************************)
\* a plausible slip: the cycle guard is not consulted
DispatchNoGuard(s, stk) ==
    IF s = "none" THEN "noop"
    ELSE IF Snippets[s].kind = "function" THEN "function"
    ELSE "template"

\* a plausible slip: a function snippet is not told from a template
DispatchNoFunction(s, stk) ==
    IF s = "none" \/ s \in stk THEN "noop" ELSE "template"

\* the branch resolve takes for snippet s
Dispatch(s, stk) ==
    IF s = "none" \/ s \in stk THEN "noop"
    ELSE IF Snippets[s].kind = "function" THEN "function"
    ELSE "template"

\* whether parse(snippet.value) returns a tree
Parses(s) == Snippets[s].kind = "template"

\* the test's function snippet: node.value = 'fn value' + repeat's value
FnValue(rep) ==
    IF rep = NoRepeat THEN "fn value" ELSE "fn value " \o ToString(rep.value)

\* an error leaves resolve: it unwinds to the innermost function that catches it,
\* or to the caller of the walk.  No frame it passes touches `stack`.
Catcher(fr) ==
    IF \E i \in 1..Len(fr) : fr[i].kind = "fn"
    THEN CHOOSE i \in 1..Len(fr) : fr[i].kind = "fn" /\ \A j \in (i+1)..Len(fr) : fr[j].kind # "fn"
    ELSE 0

Throw(fr, e) ==
    LET k == Catcher(fr)
    IN  IF k = 0
        THEN frames' = <<>> /\ status' = "failed" /\ err' = e
        ELSE frames' = SubSeq(fr, 1, k) /\ UNCHANGED <<status, err>>

Entering == Running /\ Top.kind = "resolve" /\ Top.pc = "enter"
Snippet == RegistryResolve(nodes[Top.node].name)

\* index.js 33-35
CanResolveNoop == Entering /\ Dispatch(Snippet, stack) = "noop"
ResolveNoop ==
    /\ CanResolveNoop /\ Tick
    /\ frames' = Pop(frames)
    /\ last' = Last("noop", Top.node, Snippet)
    /\ UNCHANGED <<variant, live, nodes, stack, status, err, pre>>

CanResolveFn(f) ==
    Entering /\ Dispatch(Snippet, stack) = "function" /\ Snippets[Snippet].fn = f

\* index.js 38-40: the function of the tests
ResolveFnSetValue ==
    /\ CanResolveFn("setValue") /\ Tick
    /\ nodes' = [nodes EXCEPT ![Top.node].value = FnValue(nodes[Top.node].repeat)]
    /\ frames' = Pop(frames)
    /\ last' = Last("function", Top.node, Snippet)
    /\ UNCHANGED <<variant, live, stack, status, err, pre>>

\* index.js 38-40: a function that throws
ResolveFnThrow ==
    /\ CanResolveFn("throw") /\ Tick
    /\ Throw(Pop(frames), FunctionError)
    /\ last' = Last("function", Top.node, Snippet)
    /\ UNCHANGED <<variant, live, nodes, stack, pre>>

\* index.js 38-40: a function that re-enters resolve on the node's children
ResolveFnRetry ==
    /\ CanResolveFn("retry") /\ Tick
    /\ frames' = SetTop(frames, FnFrame(Top.node, nodes[Top.node].children))
    /\ last' = Last("function", Top.node, Snippet)
    /\ UNCHANGED <<variant, live, nodes, stack, status, err, pre>>

CanFnNext == Running /\ Top.kind = "fn" /\ Top.todo # <<>>
FnNext ==
    /\ CanFnNext /\ Tick
    /\ frames' = Append(SetTop(frames, [Top EXCEPT !.todo = Tail(@)]),
                        ResolveFrame(Head(Top.todo)))
    /\ UNCHANGED <<variant, live, nodes, stack, status, err, pre, last>>

CanFnReturn == Running /\ Top.kind = "fn" /\ Top.todo = <<>>
FnReturn ==
    /\ CanFnReturn /\ Tick
    /\ frames' = Pop(frames)
    /\ UNCHANGED <<variant, live, nodes, stack, status, err, pre, last>>

\* index.js 42-45: parse, stack.add, tree.walk(resolve)
CanResolveParse ==
    /\ Entering
    /\ Dispatch(Snippet, stack) = "template"
    /\ Parses(Snippet)
    /\ Len(nodes) + Len(Snippets[Snippet].tpl) + 1 <= MaxNodes
ResolveParse ==
    /\ CanResolveParse /\ Tick
    /\ LET root == Len(nodes) + 1
           nds  == Alloc(nodes, Snippets[Snippet].tpl, Top.node)
       IN  /\ nodes' = nds
           /\ frames' = Append(SetTop(frames, [Top EXCEPT !.pc = "walking",
                                                          !.snip = Snippet,
                                                          !.root = root]),
                               WalkFrame(FirstChild(nds, root), FALSE))
    /\ stack' = stack \cup {Snippet}
    /\ last' = Last("parse", Top.node, Snippet)
    /\ UNCHANGED <<variant, live, status, err, pre>>

\* index.js 42: parse throws
CanResolveParseFail ==
    Entering /\ Dispatch(Snippet, stack) = "template" /\ ~Parses(Snippet)
ResolveParseFail ==
    /\ CanResolveParseFail /\ Tick
    /\ Throw(Pop(frames), ParserError)
    /\ last' = Last("parseFail", Top.node, Snippet)
    /\ UNCHANGED <<variant, live, nodes, stack, pre>>

\* index.js 46-57: tree.walk returned; stack.delete, merge and splice
CanResolveFinish == Running /\ Top.kind = "resolve" /\ Top.pc = "walking"
ResolveFinish ==
    /\ CanResolveFinish /\ Tick
    /\ stack' = stack \ {Top.snip}
    /\ nodes' = Splice(nodes, Top.node, Top.root, variant, live)
    /\ frames' = Pop(frames)
    /\ last' = [Last("splice", Top.node, Top.snip) EXCEPT
                    !.root = Top.root, !.target = FindDeepestNode(nodes, Top.root)]
    /\ UNCHANGED <<variant, live, status, err, pre>>

(***************************************************************************)
(* tree.walk(fn): the next sibling is read before fn is called; fn is      *)
(* resolveNode (a new stack for each call) in the top-level walk and       *)
(* resolve in the walk of a parsed tree.                                   *)
(***************************************************************************)
CanWalkVisit == Running /\ Top.kind = "walk" /\ Top.pc = "loop" /\ Top.cur # 0
WalkVisit ==
    /\ CanWalkVisit /\ Tick
    /\ frames' = Append(SetTop(frames, [Top EXCEPT !.pc = "called",
                                                   !.nxt = NextSibling(nodes, Top.cur)]),
                        ResolveFrame(Top.cur))
    /\ stack' = IF Top.top THEN {} ELSE stack
    /\ pre' = IF Top.top THEN nodes ELSE pre
    /\ last' = IF Top.top THEN Last("call", Top.cur, "none") ELSE last
    /\ UNCHANGED <<variant, live, nodes, status, err>>

CanWalkDescend == Running /\ Top.kind = "walk" /\ Top.pc = "called"
WalkDescend ==
    /\ CanWalkDescend /\ Tick
    /\ frames' = Append(SetTop(frames, [Top EXCEPT !.pc = "loop", !.cur = Top.nxt, !.nxt = 0]),
                        WalkFrame(FirstChild(nodes, Top.cur), Top.top))
    /\ UNCHANGED <<variant, live, nodes, stack, status, err, pre, last>>

CanWalkReturn == Running /\ Top.kind = "walk" /\ Top.pc = "loop" /\ Top.cur = 0
WalkReturn ==
    /\ CanWalkReturn /\ Tick
    /\ frames' = Pop(frames)
    /\ status' = IF Len(frames) = 1 THEN "done" ELSE status
    /\ UNCHANGED <<variant, live, nodes, stack, err, pre, last>>

\* some step of the resolver can be taken
CanStep ==
    \/ CanWalkVisit \/ CanWalkDescend \/ CanWalkReturn
    \/ CanResolveNoop \/ CanResolveParse \/ CanResolveParseFail \/ CanResolveFinish
    \/ CanResolveFn("setValue") \/ CanResolveFn("throw") \/ CanResolveFn("retry")
    \/ CanFnNext \/ CanFnReturn

Init ==
    /\ variant \in {"tree", "parseInjected"}
    /\ live \in IF variant = "tree" THEN {FALSE} ELSE BOOLEAN
    /\ \E input \in Inputs : nodes = Alloc(<<>>, input, 0)
    /\ frames = <<WalkFrame(FirstChild(nodes, 1), TRUE)>>
    /\ stack = {}
    /\ status = "running"
    /\ err = NoError
    /\ pre = nodes
    /\ last = Last("init", 0, "none")
    /\ steps = 0

Next ==
    \/ WalkVisit
    \/ WalkDescend
    \/ WalkReturn
    \/ ResolveNoop
    \/ ResolveFnSetValue
    \/ ResolveFnThrow
    \/ ResolveFnRetry
    \/ FnNext
    \/ FnReturn
    \/ ResolveParse
    \/ ResolveParseFail
    \/ ResolveFinish

Spec == Init /\ [][Next]_vars

(***************************************************************************)
(* merge(from, to) on its own: the two nodes are drawn from bounded sets   *)
(* and merged once.                                                        *)
(***************************************************************************)
\* attributes of one node in the merge specification
MaxAttrs == 2

FromAttrChoices ==
    { Attr("class", v, FALSE) : v \in {<<"x">>, <<"x", "y">>} }
    \cup { Attr(n, v, i) : n \in {"href", "title"}, v \in {<<>>, <<"f">>}, i \in BOOLEAN }

ToAttrChoices ==
    { Attr("class", v, FALSE) : v \in {<<"y">>, <<"z">>} }
    \cup { Attr(n, v, FALSE) : n \in {"href", "title"}, v \in {<<>>, <<"t">>} }

\* sequences of at most MaxAttrs attributes with distinct names
AttrLists(S) ==
    { l \in SeqsUpTo(S, MaxAttrs) :
        \A i, j \in 1..Len(l) : i # j => l[i].name # l[j].name }

Detached(name, attrs, repeat) ==
    [name |-> name, attrs |-> attrs, value |-> Null, selfClosing |-> FALSE,
     repeat |-> repeat, parent |-> 0, children |-> <<>>]

MergeInit ==
    /\ variant \in {"tree", "parseInjected"}
    /\ live \in IF variant = "tree" THEN {FALSE} ELSE BOOLEAN
    /\ \E fa \in AttrLists(FromAttrChoices), ta \in AttrLists(ToAttrChoices),
          fr \in {NoRepeat, Repeat(2, 2)}, tr \in {NoRepeat, Repeat(3, 1)} :
            nodes = << Detached("tpl", fa, fr), Detached("abbr", ta, tr) >>
    /\ frames = <<>>
    /\ stack = {}
    /\ status = "running"
    /\ err = NoError
    /\ pre = nodes
    /\ last = Last("init", 0, "none")
    /\ steps = 0

MergeStep ==
    /\ status = "running" /\ frames = <<>> /\ last.op = "init" /\ Len(nodes) = 2
    /\ steps' = steps + 1
    /\ nodes' = Merge(nodes, 1, 2, variant, live)
    /\ last' = [Last("merge", 2, "none") EXCEPT !.target = 1]
    /\ status' = "done"
    /\ UNCHANGED <<variant, live, frames, stack, err, pre>>

MergeNext == MergeStep

MergeSpec == MergeInit /\ [][MergeNext]_vars

(***************************************************************************)
(* Properties.  `last` names the last step of resolve (or the last call of  *)
(* resolveNode by the top-level walk, which starts with a new cycle guard):*)
(* last.before is the arena before it, last.node the node resolved (the    *)
(* `to` of merge), last.target the deepest node of the parsed tree (the    *)
(* `from` of merge), last.root the root of the parsed tree.                *)
(***************************************************************************)
EnterOps == {"noop", "function", "parse", "parseFail"}
Terminated == status \in {"done", "failed"}

RECURSIVE Descendants(_, _)
Descendants(nds, x) ==
    {x} \cup UNION { Descendants(nds, nds[x].children[k]) : k \in 1..Len(nds[x].children) }

RECURSIVE OnLastPath(_, _, _)
OnLastPath(nds, x, n) ==
    \/ x = n
    \/ /\ nds[x].children # <<>>
       /\ OnLastPath(nds, nds[x].children[Len(nds[x].children)], n)

Replaced(seq, old, new) == [k \in 1..Len(seq) |-> IF seq[k] = old THEN new ELSE seq[k]]

\* C1: after resolve(N) splices a template, the expanded sub-tree stands where N
\* stood among N's siblings (those before stay before, those after stay after),
\* the sub-tree keeps its shape with N in the place of its deepest-rightmost
\* node, N is found from the sub-tree's last top node by following last
\* children, and N's original children are, in order, children of N and of no
\* other node.
C1_DeepTargetPlacement ==
    last.op = "splice" =>
        LET b   == last.before
            n   == last.node
            t   == last.root
            P   == b[n].parent
            sib == b[P].children
            i   == IndexOf(sib, n)
            ct  == FindLastDescendant(b, t)
            X   == Replaced(b[t].children, ct, n)
        IN  /\ i # 0 /\ X # <<>>
            /\ nodes[P].children = SubSeq(sib, 1, i - 1) \o X \o SubSeq(sib, i + 1, Len(sib))
            /\ \A y \in Descendants(b, t) \ {t, ct} :
                    /\ nodes[y].children = Replaced(b[y].children, ct, n)
                    /\ nodes[y].parent = IF b[y].parent = t THEN P ELSE b[y].parent
            /\ OnLastPath(nodes, X[Len(X)], n)
            /\ nodes[n].children = b[n].children
            /\ \A y \in 1..Len(nodes) : \A k \in 1..Len(b[n].children) :
                    Has(nodes[y].children, b[n].children[k]) => y = n

\* a node of the live tree with children and a sibling after it was resolved
\* through a template whose deepest node is not a top node of the template
C1_Witness ==
    /\ last.op = "splice"
    /\ last.before[last.node].parent = 1
    /\ last.before[last.node].children # <<>>
    /\ NextSibling(last.before, last.node) # 0
    /\ last.before[last.target].parent # last.root

MergeOps == {"splice", "merge"}
NameValue(attrs) == [k \in 1..Len(attrs) |-> <<attrs[k].name, attrs[k].value>>]
NamesDistinct(attrs) ==
    \A i, j \in 1..Len(attrs) : i # j => attrs[i].name # attrs[j].name

\* the class names of `to` followed by those of `from` that `to` lacked
ClassUnion(tv, fv) == tv \o SelectSeq(fv, LAMBDA x : ~Has(tv, x))

ExpectedAttrs(f, t, classesUnite) ==
    LET val(a) == IF AttrIndex(t, a.name) = 0 THEN a.value
                  ELSE IF classesUnite /\ a.name = "class"
                       THEN ClassUnion(t[AttrIndex(t, a.name)].value, a.value)
                       ELSE t[AttrIndex(t, a.name)].value
    IN  [k \in 1..Len(f) |-> <<f[k].name, val(f[k])>>]
        \o NameValue(SelectSeq(t, LAMBDA a : AttrIndex(f, a.name) = 0))

\* C2 as stated: after mergeAttributes(from, to), `to` has the attributes of
\* `from` in the order of `from`, each with the value of `to` when `to` has that
\* name and the template's value otherwise, then the attributes only `to` had, in
\* the order of `to`; no name twice.
C2_AsStated ==
    (last.op \in MergeOps /\ variant = "tree") =>
        /\ NameValue(nodes[last.node].attrs) =
              ExpectedAttrs(last.before[last.target].attrs, last.before[last.node].attrs, FALSE)
        /\ NamesDistinct(nodes[last.node].attrs)

\* C2, amended: as stated of mergeAttributes of index.js 94-132, except that a
\* class attribute both nodes have carries the class names of `to` followed by
\* the class names of `from` that `to` lacked.
C2_AttributeOrder ==
    (last.op \in MergeOps /\ variant = "tree") =>
        /\ NameValue(nodes[last.node].attrs) =
              ExpectedAttrs(last.before[last.target].attrs, last.before[last.node].attrs, TRUE)
        /\ NamesDistinct(nodes[last.node].attrs)

\* both nodes have a class attribute, `from` has an attribute `to` overrides with
\* another value, and `to` has an attribute of its own that `from` lacks
C2_Witness ==
    /\ last.op = "merge" /\ variant = "tree"
    /\ LET f == last.before[last.target].attrs
           t == last.before[last.node].attrs
       IN  /\ AttrIndex(f, "class") # 0 /\ AttrIndex(t, "class") # 0
           /\ \E k \in 1..Len(f) : /\ f[k].name # "class"
                                   /\ AttrIndex(t, f[k].name) = 0
           /\ \E k \in 1..Len(t) : /\ t[k].name # "class"
                                   /\ AttrIndex(f, t[k].name) = 0
    /\ Len(nodes[last.node].attrs) = 3

\* C3: a node whose snippet is in the cycle guard is left exactly as it is
\* (nothing parsed, nothing merged, the guard unchanged) ...
C3_CycleLeftAsParsed ==
    (last.op \in EnterOps /\ last.snip \in last.stackBefore) =>
        /\ last.op = "noop"
        /\ nodes = last.before
        /\ stack = last.stackBefore

\* C3: ... and the top-level resolve terminates, whatever the tree and also with a
\* snippet that contains its own name and snippets that name each other: every
\* step counts, no run takes more than MaxSteps steps or parses beyond MaxNodes
\* nodes, and a run that has not returned or thrown can take a step.
C3_Terminates ==
    /\ C3_CycleLeftAsParsed
    /\ Terminated \/ CanStep

\* two snippets that name each other were both being expanded when the cycle
\* guard stopped the expansion of a node of a parsed tree
C3_Witness ==
    /\ last.op = "noop"
    /\ last.stackBefore = {"p", "q"}
    /\ last.snip \in last.stackBefore
    /\ last.before[last.node].parent > Len(pre)
    /\ nodes = last.before

\* C4 as stated: a splice leaves the repeat descriptor of the resolved node as it was.
C4_AsStated ==
    (last.op = "splice" /\ last.before[last.node].repeat # NoRepeat) =>
        nodes[last.node].repeat = last.before[last.node].repeat

\* C4, amended: the repeat descriptor of the resolved node is kept when the deepest
\* node of the expanded template carries none; when it carries one, the resolved
\* node ends with the template's descriptor.
C4_RepeatPreserved ==
    (last.op = "splice" /\ last.before[last.node].repeat # NoRepeat) =>
        /\ last.before[last.target].repeat = NoRepeat =>
                nodes[last.node].repeat = last.before[last.node].repeat
        /\ last.before[last.target].repeat # NoRepeat =>
                nodes[last.node].repeat = last.before[last.target].repeat
        /\ OnLastPath(nodes, nodes[last.before[last.node].parent].children[
                                IndexOf(last.before[last.before[last.node].parent].children,
                                        last.node)
                                + Len(last.before[last.root].children) - 1],
                      last.node)

\* a node repeated twice (index 1) was resolved through a template without repeat
C4_Witness ==
    /\ last.op = "splice"
    /\ last.before[last.node].repeat = Repeat(2, 1)
    /\ last.before[last.target].repeat = NoRepeat
    /\ nodes[last.node].repeat = Repeat(2, 1)
    /\ nodes[last.node].name = "a"

\* C5: after a splice an attribute the template marks implied is no longer implied
\* when the resolved node had an attribute of that name, and is still implied
\* when it had none.
C5_ImpliedPromotion ==
    last.op = "splice" =>
        LET f == last.before[last.target].attrs
            t == last.before[last.node].attrs
            r == nodes[last.node].attrs
        IN  \A k \in 1..Len(f) :
                (f[k].implied /\ f[k].name # "class") =>
                    /\ AttrIndex(r, f[k].name) # 0
                    /\ r[AttrIndex(r, f[k].name)].implied = (AttrIndex(t, f[k].name) = 0)

\* C6: a node whose snippet is a function is handed to the function and nothing
\* else happens to it: no template is parsed, the cycle guard is not touched, the
\* arena is what the function left (the value it set; the node's name, place and
\* children as they were).
FunctionLeft(b, n, f) ==
    IF f = "setValue" THEN [b EXCEPT ![n].value = FnValue(b[n].repeat)] ELSE b

C6_FunctionHandOff ==
    (/\ last.op \in EnterOps
     /\ last.snip # "none"
     /\ Snippets[last.snip].kind = "function") =>
        /\ last.op = "function"
        /\ stack = last.stackBefore
        /\ nodes = FunctionLeft(last.before, last.node, Snippets[last.snip].fn)

\* the function of the tests set the value of a node that has children, inside the
\* expansion of a template (the cycle guard is not empty)
C6_Witness ==
    /\ last.op = "function"
    /\ Snippets[last.snip].fn = "setValue"
    /\ nodes[last.node].value = "fn value"
    /\ last.stackBefore # {}

\* C7: when a parse error reaches the caller, every node that existed when the
\* top-level resolve was called is as it was then (fields, children, parent), so
\* nothing that was parsed hangs in the live tree.
C7_NoPartialSplice ==
    (status = "failed" /\ err.origin = "parser") =>
        /\ Len(nodes) >= Len(pre)
        /\ \A x \in 1..Len(pre) : nodes[x] = pre[x]

\* the template of a node of the live tree was parsed and a template inside it
\* failed to parse
C7_Witness ==
    /\ status = "failed" /\ err.origin = "parser"
    /\ Len(nodes) > Len(pre)
    /\ last.op = "parseFail"
    /\ last.before[last.node].parent > Len(pre)

\* C8: a parse error that reaches the caller names the snippet that failed to
\* parse and wraps the parser's error.
C8_ErrorNamesSnippet ==
    (status = "failed" /\ err.origin = "parser") =>
        /\ err.names = last.snip
        /\ err.wrapped

\* C9: while the resolver runs, every snippet in the cycle guard is one whose
\* sub-tree is being walked by a call on the call chain: a call that was left,
\* normally or by an error, has taken its snippet out.
C9_StackExceptionSafe ==
    frames # <<>> =>
        \A s \in stack :
            \E k \in 1..Len(frames) :
                frames[k].kind = "resolve" /\ frames[k].pc = "walking" /\ frames[k].snip = s

\* C10: after a splice parent and child links agree all over the arena, the
\* deepest node of the parsed tree is detached and no node's child, and the root
\* of the parsed tree has no children.
LinksAgree(nds) ==
    \A x \in 1..Len(nds) :
        /\ \A k \in 1..Len(nds[x].children) : nds[nds[x].children[k]].parent = x
        /\ \A j, k \in 1..Len(nds[x].children) :
                j # k => nds[x].children[j] # nds[x].children[k]
        /\ nds[x].parent # 0 => Has(nds[nds[x].parent].children, x)

C10_LinksAgree ==
    last.op = "splice" =>
        /\ LinksAgree(nodes)
        /\ nodes[last.target].parent = 0
        /\ \A x \in 1..Len(nodes) : ~Has(nodes[x].children, last.target)
        /\ nodes[last.root].children = <<>>

\* a template of a single node was spliced: its node was moved beside the
\* resolved node and then removed
C10_Witness ==
    /\ last.op = "splice"
    /\ last.before[last.root].children = <<last.target>>
    /\ nodes[last.target].parent = 0
    /\ last.before[last.node].parent = 1

====
